---- MODULE Spec2Model ----
(***************************************************************************)
(* A model of ascii_gen.py: one run of the command-line program, from the  *)
(* call of generate_ascii to the final print of __main__.                  *)
(*                                                                         *)
(* An image is a record [mode, w, h, px]; px is the row-major sequence of  *)
(* pixels, each pixel a tuple of band values (one band for "L" and "P",    *)
(* two for "LA", three for "RGB", four for "RGBA").  A string is a         *)
(* sequence of one-character strings.  The float --ratio is kept as an     *)
(* exact fraction <<num, den>>.                                            *)
(***************************************************************************)
EXTENDS Integers, Sequences, FiniteSets, TLC

VARIABLES
    pc,              \* position of the run in generate_ascii / __main__
    width,           \* args.width
    ratio,           \* args.ratio, as <<numerator, denominator>>
    threshold,       \* args.threshold: [set |-> FALSE] is None
    img,             \* the local variable img of generate_ascii
    new_image_data,  \* the flat character sequence (line 54)
    ascii_image,     \* the joined string (line 57)
    returned,        \* "unset", "None" (line 35) or "str" (line 58)
    exc,             \* the exception that left generate_ascii uncaught, or ""
    stdout,          \* the sequence of print calls, each a sequence of strings
    gray,            \* history: the image grayify returned (line 49)
    src,             \* history: the image as it was decoded (line 32)
    stages           \* history: the stages executed so far, in order

vars == <<pc, width, ratio, threshold, img, new_image_data, ascii_image,
          returned, exc, stdout, gray, src, stages>>

----------------------------------------------------------------------------
(* Bounds of the model.                                                    *)

MaxDim == 3

MaxWidth == 2

Min(a, b) == IF a < b THEN a ELSE b

Max(a, b) == IF a > b THEN a ELSE b

\* --width: non-positive values are not rejected by the parser.
WidthVals == (-1)..MaxWidth

\* --ratio: 0.5, 1.0, 2.0 (the default), 0.0 and -1.0.
RatioVals == {<<1, 2>>, <<1, 1>>, <<2, 1>>, <<0, 1>>, <<-1, 1>>}

NoThreshold == [set |-> FALSE, val |-> 0]

\* --threshold: None (the default), or an int, in or out of 0..255.
ThresholdVals ==
    {NoThreshold} \cup {[set |-> TRUE, val |-> t] : t \in {-1, 0, 100, 255, 256}}

\* What requests.get, raise_for_status and Image.open can raise.
FetchErrors == {"ConnectionError", "HTTPError", "UnidentifiedImageError"}

\* The palette of a decoded "P" image, as RGBA entries (entry 0 transparent).
Palette == << <<0, 0, 0, 0>>, <<0, 0, 0, 255>>, <<255, 255, 255, 255>> >>

Modes == {"L", "LA", "RGB", "RGBA", "P"}

\* The pixel values a decoded image of each mode is drawn from.
SrcPixels(mode) ==
    CASE mode = "L"    -> {<<0>>, <<100>>, <<255>>}
      [] mode = "LA"   -> {<<0, 0>>, <<100, 128>>, <<0, 255>>}
      [] mode = "RGB"  -> {<<0, 0, 0>>, <<255, 0, 0>>, <<255, 255, 255>>}
      [] mode = "RGBA" -> {<<0, 0, 0, 0>>, <<255, 0, 0, 128>>, <<0, 0, 255, 255>>}
      [] mode = "P"    -> {<<0>>, <<1>>, <<2>>}

\* The pixel values the resampling filter's output is drawn from.
ResampleVals(mode) ==
    IF mode = "L"
    THEN {<<0>>, <<100>>, <<101>>, <<255>>}
    ELSE {<<0, 0, 0>>, <<100, 100, 100>>, <<101, 101, 101>>, <<255, 255, 255>>}

\* A pixel grid of n pixels: the pair pat repeated.
Tile(pat, n) == [i \in 1..n |-> pat[((i - 1) % 2) + 1]]

\* The images Image.open can return.
DecodedImages ==
    UNION {{[mode |-> m, w |-> w, h |-> h, px |-> Tile(<<a, b>>, w * h)] :
               w \in 1..MaxDim, h \in 1..MaxDim,
               a \in SrcPixels(m), b \in SrcPixels(m)} : m \in Modes}

NoImage == [mode |-> "none", w |-> 0, h |-> 0, px |-> <<>>]

----------------------------------------------------------------------------
(* The ramp and the pure helpers.                                          *)

ASCII_CHARS == <<"@", "%", "#", "*", "+", "=", "-", ":", ".", " ">>

\* int(n / d) for d # 0: Python's int() truncates toward zero.
Trunc(n, d) ==
    LET an == IF n < 0 THEN -n ELSE n
        ad == IF d < 0 THEN -d ELSE d
        q  == an \div ad
    IN  IF (n < 0) = (d < 0) THEN q ELSE -q

\* Mutant: the clamp of line 14 is missing.
NewHeightNoClamp(w, h, new_width, r) == Trunc(new_width * h * r[2], w * r[1])

\* Mutant: ratio_val is ignored and the default 2.0 is used.
NewHeightDefaultRatio(w, h, new_width, r) ==
    LET new_height == Trunc(new_width * h, w * 2)
    IN  IF new_height = 0 THEN 1 ELSE new_height

\* resize_image, lines 11-14: ratio = height / width / ratio_val,
\* new_height = int(new_width * ratio), and 0 becomes 1.  r[1] # 0.
\* The code computes in double precision; on the sizes, widths and ratios
\* of this model the double result and the exact quotient truncate to the
\* same integer.
NewHeight(w, h, new_width, r) ==
    LET new_height == Trunc(new_width * h * r[2], w * r[1])
    IN  IF new_height = 0 THEN 1 ELSE new_height

\* Mutant: only the height is checked.
ResizeFailsHeightOnly(new_width, new_height) == new_height < 1

\* Image.resize refuses a size with a non-positive side (ValueError).
ResizeFails(new_width, new_height) == new_width < 1 \/ new_height < 1

IsConstant(im) == \A i \in 1..Len(im.px) : im.px[i] = im.px[1]

\* Image.resize(size, resample=LANCZOS): the image's mode is kept and the
\* size is the one asked for.  An image that already has that size is
\* copied; a constant image stays constant (the filter's weights sum to
\* one); any other content is whatever the filter computes.
Resample(im, new_width, new_height) ==
    IF im.w = new_width /\ im.h = new_height
    THEN {im}
    ELSE LET pats == IF Len(im.px) > 0 /\ IsConstant(im)
                     THEN {<<im.px[1], im.px[1]>>}
                     ELSE {<<a, b>> : a \in ResampleVals(im.mode),
                                      b \in ResampleVals(im.mode)}
         IN  {[mode |-> im.mode, w |-> new_width, h |-> new_height,
               px |-> Tile(pat, Max(0, new_width * new_height))] : pat \in pats}

\* img.convert('RGBA') of a palette image (lines 37-38).
ConvertPalette(im) ==
    IF im.mode = "P"
    THEN [im EXCEPT !.mode = "RGBA",
                    !.px = [i \in 1..Len(im.px) |-> Palette[im.px[i][1] + 1]]]
    ELSE im

MulDiv255(a, b) == LET tmp == a * b + 128 IN ((tmp \div 256) + tmp) \div 256

\* One band of background.paste(img, mask=alpha): the blend of the
\* background band bg and the image band fg under the mask value a.
Blend8(a, bg, fg) == MulDiv255(bg, 255 - a) + MulDiv255(fg, a)

\* The colour bands and the alpha band of an "RGBA" or "LA" pixel.
Bands(mode, p) == IF mode = "RGBA" THEN <<p[1], p[2], p[3]>> ELSE <<p[1], p[1], p[1]>>

AlphaOf(mode, p) == IF mode = "RGBA" THEN p[4] ELSE p[2]

\* Mutant: the alpha band is dropped instead of used as the mask.
CompositeNoMask(im) ==
    IF im.mode \in {"RGBA", "LA"}
    THEN [mode |-> "RGB", w |-> im.w, h |-> im.h,
          px |-> [i \in 1..Len(im.px) |-> Bands(im.mode, im.px[i])]]
    ELSE im

\* Lines 40-47: an image with an alpha band is pasted on a white RGB
\* background of the same size, its alpha band the mask.
CompositeWhite(im) ==
    IF im.mode \in {"RGBA", "LA"}
    THEN [mode |-> "RGB", w |-> im.w, h |-> im.h,
          px |-> [i \in 1..Len(im.px) |->
                    LET p == im.px[i]
                        c == Bands(im.mode, p)
                        a == AlphaOf(im.mode, p)
                    IN  <<Blend8(a, 255, c[1]), Blend8(a, 255, c[2]),
                          Blend8(a, 255, c[3])>>]]
    ELSE im

\* image.convert("L") of one pixel: the ITU-R 601-2 luma of an RGB pixel;
\* an "L" pixel is copied.
Luma(mode, p) ==
    IF mode = "L"
    THEN p[1]
    ELSE (p[1] * 19595 + p[2] * 38470 + p[3] * 7471 + 32768) \div 65536

\* grayify, lines 18-19.
GrayImage(im) ==
    [mode |-> "L", w |-> im.w, h |-> im.h,
     px |-> [i \in 1..Len(im.px) |-> <<Luma(im.mode, im.px[i])>>]]

\* Mutant: a pixel above the threshold keeps its value.
PointFnKeep(p, t) == IF p > t THEN p ELSE 0

\* Mutant: the comparison is >= instead of >.
PointFnGe(p, t) == IF p >= t THEN 255 ELSE 0

\* The lambda of line 52.
PointFn(p, t) == IF p > t THEN 255 ELSE 0

\* img.point(lambda ...), line 52.
PointImage(im, t) ==
    [im EXCEPT !.px = [i \in 1..Len(im.px) |-> <<PointFn(im.px[i][1], t)>>]]

\* Mutant: the divisor is 256 instead of 255.
RampIndex256(pixel) == (pixel * (Len(ASCII_CHARS) - 1)) \div 256

\* int(pixel * (ascii_str_len - 1) / 255), line 24, for pixel >= 0.
RampIndex(pixel) == (pixel * (Len(ASCII_CHARS) - 1)) \div 255

\* pixels_to_ascii, lines 21-25.
PixelsToAsciiStr(im) ==
    [i \in 1..Len(im.px) |-> ASCII_CHARS[RampIndex(im.px[i][1]) + 1]]

\* Mutant: the slice ends one character early.
SliceShort(s, a, b) == SubSeq(s, a + 1, Min(b, Len(s)) - 1)

\* s[a:b] for 0 <= a <= b.
Slice(s, a, b) == SubSeq(s, a + 1, Min(b, Len(s)))

\* "\n".join of the slices taken at index, index + w, ... (line 57), w > 0.
RECURSIVE JoinFrom(_, _, _)
JoinFrom(data, index, w) ==
    IF index >= Len(data)
    THEN <<>>
    ELSE Slice(data, index, index + w)
         \o (IF index + w < Len(data)
             THEN <<"\n">> \o JoinFrom(data, index + w, w)
             ELSE <<>>)

\* Line 57 for a positive width; range() with a negative step from 0 is
\* empty, so the result is the empty string.
JoinedRows(data, w) == IF w > 0 THEN JoinFrom(data, 0, w) ELSE <<>>

\* Mutant: the result is printed whatever it is.
TruthyAlways(ret, s) == TRUE

\* `if result:` of line 70.
Truthy(ret, s) == ret = "str" /\ Len(s) > 0

----------------------------------------------------------------------------
(* The run.                                                                *)

\* The program has parsed its arguments and is about to call
\* generate_ascii (line 69).
Init ==
    /\ pc = "fetch"
    /\ width \in WidthVals
    /\ ratio \in RatioVals
    /\ threshold \in ThresholdVals
    /\ img = NoImage
    /\ new_image_data = <<>>
    /\ ascii_image = <<>>
    /\ returned = "unset"
    /\ exc = ""
    /\ stdout = <<>>
    /\ gray = NoImage
    /\ src = NoImage
    /\ stages = <<>>

\* Lines 28-32 without an exception: img is the decoded image.
FetchOk ==
    /\ pc = "fetch"
    /\ \E image \in DecodedImages :
          /\ img' = image
          /\ src' = image
    /\ pc' = "normalize"
    /\ stages' = Append(stages, "fetch")
    /\ UNCHANGED <<gray, width, ratio, threshold, new_image_data, ascii_image,
                   returned, exc, stdout>>

\* Lines 28-35 with an exception e: one line is printed and the function
\* returns None.
FetchFail ==
    /\ pc = "fetch"
    /\ \E e \in FetchErrors :
          stdout' = Append(stdout, <<"Error loading image: ", e>>)
    /\ returned' = "None"
    /\ pc' = "main"
    /\ stages' = Append(stages, "fetch")
    /\ UNCHANGED <<gray, width, ratio, threshold, img, new_image_data, ascii_image,
                   exc, src>>

\* Lines 37-47.
Normalize ==
    /\ pc = "normalize"
    /\ img' = CompositeWhite(ConvertPalette(img))
    /\ pc' = "resize"
    /\ stages' = Append(stages, "normalize")
    /\ UNCHANGED <<gray, width, ratio, threshold, new_image_data, ascii_image,
                   returned, exc, stdout, src>>

\* resize_image (lines 10-16), called on line 49.  A zero ratio_val makes
\* line 12 raise ZeroDivisionError; a size Image.resize refuses makes line
\* 15 raise ValueError.  Nothing catches either.
Resize ==
    /\ pc = "resize"
    /\ stages' = Append(stages, "resize")
    /\ IF ratio[1] = 0
       THEN /\ exc' = "ZeroDivisionError"
            /\ pc' = "crashed"
            /\ img' = img
       ELSE LET new_height == NewHeight(img.w, img.h, width, ratio)
            IN  IF ResizeFails(width, new_height)
                THEN /\ exc' = "ValueError"
                     /\ pc' = "crashed"
                     /\ img' = img
                ELSE /\ img' \in Resample(img, width, new_height)
                     /\ pc' = "grayify"
                     /\ exc' = exc
    /\ UNCHANGED <<gray, width, ratio, threshold, new_image_data, ascii_image,
                   returned, stdout, src>>

\* Mutant: control goes from grayify straight to the character mapping.
GrayifySkipsThreshold ==
    /\ pc = "grayify"
    /\ img' = GrayImage(img)
    /\ gray' = GrayImage(img)
    /\ pc' = "to_ascii"
    /\ stages' = Append(stages, "grayify")
    /\ UNCHANGED <<width, ratio, threshold, new_image_data, ascii_image,
                   returned, exc, stdout, src>>

\* grayify (lines 18-19), called on line 49.
Grayify ==
    /\ pc = "grayify"
    /\ img' = GrayImage(img)
    /\ gray' = GrayImage(img)
    /\ pc' = "threshold"
    /\ stages' = Append(stages, "grayify")
    /\ UNCHANGED <<width, ratio, threshold, new_image_data, ascii_image,
                   returned, exc, stdout, src>>

\* Lines 51-52: the image is binarized when threshold is not None.
Binarize ==
    /\ pc = "threshold"
    /\ IF threshold.set
       THEN /\ img' = PointImage(img, threshold.val)
            /\ stages' = Append(stages, "threshold")
       ELSE UNCHANGED <<img, stages>>
    /\ pc' = "to_ascii"
    /\ UNCHANGED <<gray, width, ratio, threshold, new_image_data, ascii_image,
                   returned, exc, stdout, src>>

\* Line 54.
PixelsToAscii ==
    /\ pc = "to_ascii"
    /\ new_image_data' = PixelsToAsciiStr(img)
    /\ pc' = "join"
    /\ stages' = Append(stages, "to_ascii")
    /\ UNCHANGED <<gray, width, ratio, threshold, img, ascii_image, returned, exc,
                   stdout, src>>

\* Lines 56-58.  range() with a zero step raises ValueError.
JoinRows ==
    /\ pc = "join"
    /\ stages' = Append(stages, "join")
    /\ IF width = 0
       THEN /\ exc' = "ValueError"
            /\ pc' = "crashed"
            /\ UNCHANGED <<ascii_image, returned>>
       ELSE /\ ascii_image' = JoinedRows(new_image_data, width)
            /\ returned' = "str"
            /\ pc' = "main"
            /\ exc' = exc
    /\ UNCHANGED <<gray, width, ratio, threshold, img, new_image_data, stdout, src>>

\* Lines 70-71.
MainPrint ==
    /\ pc = "main"
    /\ stdout' = IF Truthy(returned, ascii_image)
                 THEN Append(stdout, ascii_image)
                 ELSE stdout
    /\ pc' = "exit"
    /\ UNCHANGED <<gray, width, ratio, threshold, img, new_image_data, ascii_image,
                   returned, exc, src, stages>>

Next ==
    \/ FetchOk
    \/ FetchFail
    \/ Normalize
    \/ Resize
    \/ Grayify
    \/ Binarize
    \/ PixelsToAscii
    \/ JoinRows
    \/ MainPrint

Spec == Init /\ [][Next]_vars

----------------------------------------------------------------------------
(* The per-pixel specification: the run from grayify on, for a 1x1         *)
(* grayscale image of every luminance 0..255.                              *)

PixelThresholds ==
    {NoThreshold}
      \cup {[set |-> TRUE, val |-> t] : t \in {-1, 0, 100, 254, 255, 256}}

InitPixel ==
    /\ pc = "grayify"
    /\ width = 1
    /\ ratio = <<1, 1>>
    /\ threshold \in PixelThresholds
    /\ \E p \in 0..255 : img = [mode |-> "L", w |-> 1, h |-> 1, px |-> << <<p>> >>]
    /\ new_image_data = <<>>
    /\ ascii_image = <<>>
    /\ returned = "unset"
    /\ exc = ""
    /\ stdout = <<>>
    /\ gray = NoImage
    /\ src = img
    /\ stages = <<"fetch", "normalize", "resize">>

NextPixel ==
    \/ Grayify
    \/ Binarize
    \/ PixelsToAscii
    \/ JoinRows
    \/ MainPrint

SpecPixel == InitPixel /\ [][NextPixel]_vars

----------------------------------------------------------------------------
(* Properties.                                                             *)

AfterResize == pc \in {"grayify", "threshold", "to_ascii", "join", "main", "exit"}
                 /\ returned # "None"

Loaded == src.mode # "none"

\* The exact value new_width * (height / width / ratio_val), as n / d.
ScaledNum == width * src.h * ratio[2]

ScaledDen == src.w * ratio[1]

\* n / d rounded to the nearest integer, ties to even (Python's round),
\* for n >= 0 and d > 0.
RoundNearest(n, d) ==
    LET q == n \div d
        r == n % d
    IN  IF 2 * r < d THEN q
        ELSE IF 2 * r > d THEN q + 1
        ELSE IF q % 2 = 0 THEN q ELSE q + 1

\* C1 as stated: for width >= 1 and ratio > 0 the resized image has width
\* target_width and height round(W * (h / w) / r), 0 clamped to 1.
C1_HeightRounded ==
    (AfterResize /\ width >= 1 /\ ratio[1] > 0)
        => /\ img.w = width
           /\ img.h = Max(1, RoundNearest(ScaledNum, ScaledDen))

\* C1 amended: for width >= 1 and ratio > 0 resize_image never fails, the
\* resized image has width target_width and its height is W * (h / w / r)
\* truncated to an integer (the floor, not the nearest integer), 0 clamped
\* to 1, so the height is always >= 1.
C1_HeightTruncated ==
    /\ (pc = "crashed" /\ width >= 1 /\ ratio[1] > 0) => FALSE
    /\ (AfterResize /\ width >= 1 /\ ratio[1] > 0)
          => /\ img.w = width
             /\ img.h >= 1
             /\ IF ScaledNum < ScaledDen
                THEN img.h = 1
                ELSE /\ img.h * ScaledDen <= ScaledNum
                     /\ ScaledNum < (img.h + 1) * ScaledDen

\* A resize where truncation and rounding differ (1 * (3 / 2) / 1 = 1.5).
C1_Witness ==
    /\ AfterResize
    /\ width = 1 /\ ratio = <<1, 1>> /\ src.w = 2 /\ src.h = 3
    /\ img.h = 1

\* C2: the returned string has exactly new_height lines of exactly width
\* characters each, the last included, separated by single newlines; the
\* flat character sequence has width * new_height characters.
C2_ExactRows ==
    returned = "str"
        => /\ width >= 1
           /\ img.h >= 1
           /\ Len(new_image_data) = width * img.h
           /\ Len(ascii_image) = img.h * (width + 1) - 1
           /\ \A i \in 1..Len(ascii_image) :
                 (ascii_image[i] = "\n") <=> (i % (width + 1) = 0)

\* A returned string of more than one line and more than one column.
C2_Witness == returned = "str" /\ img.h >= 2 /\ width >= 2 /\ pc = "exit"

\* C3: every luminance p of 0..255 is mapped to the ramp character at
\* index floor(p * 9 / 255) of the 10-character ramp; the index is in
\* 0..9, 0 gives '@' and 255 gives the space.
C3_RampIndex ==
    pc \in {"join", "main", "exit"}
        => /\ Len(ASCII_CHARS) = 10
           /\ Len(new_image_data) = Len(img.px)
           /\ \A i \in 1..Len(img.px) :
                 LET p == img.px[i][1]
                     c == new_image_data[i]
                 IN  /\ \E k \in 0..9 :
                           /\ c = ASCII_CHARS[k + 1]
                           /\ k * 255 <= p * 9
                           /\ p * 9 < (k + 1) * 255
                     /\ (p = 0 => c = "@")
                     /\ (p = 255 => c = " ")
                     /\ (c = " " => p = 255)

\* Luminance 255 has been mapped to the space.
C3_Witness ==
    pc = "exit" /\ ~threshold.set /\ img.px = << <<255>> >>
        /\ new_image_data = <<" ">>

\* C4: with a threshold set, every character of the returned string other
\* than the newline is '@' or the space, whatever the threshold's value.
C4_TwoChars ==
    (returned = "str" /\ threshold.set)
        => /\ \A i \in 1..Len(ascii_image) : ascii_image[i] \in {"@", " ", "\n"}
           /\ \A i \in 1..Len(new_image_data) : new_image_data[i] \in {"@", " "}

\* A binarized run over an image that had a midtone.
C4_Witness ==
    /\ returned = "str" /\ threshold.set
    /\ \E i \in 1..Len(gray.px) : gray.px[i][1] \in {100, 101}
    /\ \E i \in 1..Len(ascii_image) : ascii_image[i] = "@"
    /\ \E i \in 1..Len(ascii_image) : ascii_image[i] = " "

\* C5: after a failed fetch or decode, generate_ascii has printed exactly
\* one line "Error loading image: <message>", returned None without
\* raising, run no later stage and fetched once; the program prints
\* nothing else.
C5_FetchFailure ==
    returned = "None"
        => /\ pc \in {"main", "exit"}
           /\ exc = ""
           /\ Len(stdout) = 1
           /\ \E e \in FetchErrors : stdout[1] = <<"Error loading image: ", e>>
           /\ stages = <<"fetch">>
           /\ ascii_image = <<>>
           /\ new_image_data = <<>>

\* The program has ended after a failed fetch.
C5_Witness == returned = "None" /\ pc = "exit"

\* C6: with threshold t, a pixel of luminance p becomes 255 when p > t and
\* 0 otherwise; p = t is rendered '@' and p = t + 1 the space.
C6_StrictThreshold ==
    (threshold.set /\ pc \in {"to_ascii", "join", "main", "exit"})
        => /\ Len(img.px) = Len(gray.px)
           /\ \A i \in 1..Len(gray.px) :
                 LET p == gray.px[i][1]
                     t == threshold.val
                 IN  /\ (p > t => img.px[i] = <<255>>)
                     /\ (p <= t => img.px[i] = <<0>>)
                     /\ pc # "to_ascii"
                           => /\ (p = t => new_image_data[i] = "@")
                              /\ (p = t + 1 => new_image_data[i] = " ")

\* A pixel exactly at the threshold has been rendered.
C6_Witness ==
    /\ threshold.set /\ pc = "exit"
    /\ gray.px[1][1] = threshold.val
    /\ new_image_data[1] = "@"

\* The RGBA view of a pixel of a decoded image.
AsRGBA(mode, p) ==
    CASE mode = "P"    -> Palette[p[1] + 1]
      [] mode = "LA"   -> <<p[1], p[1], p[1], p[2]>>
      [] mode = "RGBA" -> p
      [] mode = "RGB"  -> <<p[1], p[2], p[3], 255>>
      [] mode = "L"    -> <<p[1], p[1], p[1], 255>>

\* C7: the normalization step leaves an "RGB" or "L" image as it is and
\* turns a palette, "RGBA" or "LA" image into an "RGB" image of the same
\* size in which a fully transparent pixel is white and a fully opaque
\* pixel has the colour it had.
C7_Normalization ==
    pc = "resize"
        => /\ img.w = src.w /\ img.h = src.h
           /\ Len(img.px) = Len(src.px)
           /\ (src.mode \in {"RGB", "L"} => img = src)
           /\ (src.mode \in {"RGBA", "LA", "P"}
                 => /\ img.mode = "RGB"
                    /\ \A i \in 1..Len(src.px) :
                          LET q == AsRGBA(src.mode, src.px[i])
                          IN  /\ (q[4] = 0 => img.px[i] = <<255, 255, 255>>)
                              /\ (q[4] = 255
                                    => img.px[i] = <<q[1], q[2], q[3]>>))

\* An image with a fully transparent black pixel has been normalized.
C7_Witness ==
    /\ pc = "resize"
    /\ src.mode \in {"RGBA", "LA", "P"}
    /\ \E i \in 1..Len(src.px) :
          LET q == AsRGBA(src.mode, src.px[i])
          IN  q[4] = 0 /\ q[1] = 0 /\ img.px[i] = <<255, 255, 255>>

\* The scenario of C8: a 2x2 white RGB image, width 2, ratio 1.0, no
\* threshold.
Scenario2x2 ==
    /\ src.mode = "RGB" /\ src.w = 2 /\ src.h = 2
    /\ \A i \in 1..Len(src.px) : src.px[i] = <<255, 255, 255>>
    /\ width = 2
    /\ ratio = <<1, 1>>
    /\ ~threshold.set

\* C8 as stated: the image is resized to 2 columns by 1 row and the output
\* is the single line of two spaces.
C8_SingleLine ==
    (Scenario2x2 /\ returned = "str")
        => /\ img.w = 2 /\ img.h = 1
           /\ ascii_image = <<" ", " ">>

\* C8 amended: the image is resized to 2 columns by 2 rows, every
\* grayscale value is 255, every pixel maps to the space, and the output
\* is two lines of two spaces each, separated by one newline.
C8_TwoLines ==
    Scenario2x2
        => /\ pc # "crashed"
           /\ AfterResize => (img.w = 2 /\ img.h = 2)
           /\ pc \in {"threshold", "to_ascii", "join", "main", "exit"}
                 => img.px = << <<255>>, <<255>>, <<255>>, <<255>> >>
           /\ pc \in {"join", "main", "exit"}
                 => new_image_data = <<" ", " ", " ", " ">>
           /\ returned = "str" => ascii_image = <<" ", " ", "\n", " ", " ">>
           /\ pc = "exit" => stdout = << <<" ", " ", "\n", " ", " ">> >>

\* The scenario has run to the end.
C8_Witness == Scenario2x2 /\ pc = "exit" /\ returned = "str"

\* The order of the stages of a complete run.
FullOrder ==
    IF threshold.set
    THEN <<"fetch", "normalize", "resize", "grayify", "threshold", "to_ascii", "join">>
    ELSE <<"fetch", "normalize", "resize", "grayify", "to_ascii", "join">>

IsPrefix(s, t) == Len(s) <= Len(t) /\ \A i \in 1..Len(s) : s[i] = t[i]

\* C9: the stages run once each in the order fetch, normalization,
\* resize, grayscale, binarization (when a threshold is set), character
\* mapping, row joining; a run that returns a string ran them all, and a
\* run whose fetch failed ran none after the fetch.
C9_StageOrder ==
    /\ IsPrefix(stages, FullOrder)
    /\ returned = "str" => stages = FullOrder
    /\ returned = "None" => stages = <<"fetch">>

\* A complete run with a threshold.
C9_Witness == returned = "str" /\ threshold.set /\ pc = "exit"

OutOfRange == threshold.set /\ threshold.val \notin 0..255

\* C10 as stated: with the image loaded, a non-positive width or a
\* threshold outside 0..255 makes generate_ascii fail, never return a
\* string.
C10_MalformedFails ==
    (Loaded /\ (width < 1 \/ OutOfRange)) => returned # "str"

\* C10 amended: with the image loaded, a non-positive width makes
\* generate_ascii fail in the resize step; a threshold outside 0..255
\* causes no failure: with a width >= 1 and a ratio > 0 the string is
\* returned, all spaces for a threshold < 0 and all '@' for one > 255.
C10_WidthFailsThresholdDoesNot ==
    /\ (Loaded /\ width < 1)
          => /\ returned = "unset"
             /\ pc \in {"normalize", "resize", "crashed"}
             /\ pc = "crashed" => exc = "ValueError" \/ exc = "ZeroDivisionError"
    /\ (Loaded /\ OutOfRange /\ width >= 1 /\ ratio[1] > 0) => pc # "crashed"
    /\ (OutOfRange /\ returned = "str")
          => \A i \in 1..Len(new_image_data) :
                new_image_data[i] = IF threshold.val < 0 THEN " " ELSE "@"

\* A string has been returned under an out-of-range threshold.
C10_Witness == Loaded /\ OutOfRange /\ returned = "str" /\ pc = "exit"

====
